---- MODULE Spec2Model ----
(***************************************************************************)
(* Feed import pipeline of megabuy-go.                                     *)
(*                                                                         *)
(* Two iterations of the handlers package are in the repository:           *)
(*   impl = "feeds"  : internal/handlers/feeds.go (StartImport, runImport, *)
(*                     package-level importProgress map + progressMutex)   *)
(*   impl = "legacy" : unnamed/part_001 (StartImport, importFeed,          *)
(*                     findOrCreateCategory, Handlers.importProgress       *)
(*                     sync.Map)                                           *)
(* A behaviour runs one of them; impl never changes.                       *)
(*                                                                         *)
(* Data strings (titles, EANs, category names ...) are sequences of        *)
(* one-character strings so that makeSlug can be computed as the code      *)
(* computes it.  Status and message texts are plain tags.                  *)
(***************************************************************************)
EXTENDS Integers, Sequences, FiniteSets, TLC

\* ------------------------------------------------------------------ bounds

\* StartImport calls that are accepted (feed found) in one behaviour.
MaxTriggers == 2

\* Product rows the store may hold (uuid.New never runs out; the store does
\* here).
MaxProducts == 3

\* ------------------------------------------------------------- Go values

\* interface{} values of a raw item / of mapFields' result.
Nil == [t |-> "nil", s |-> <<>>, n |-> 0]
Str(s) == [t |-> "str", s |-> s, n |-> 0]
Num(n) == [t |-> "num", s |-> <<>>, n |-> n]

\* v.(string) with the ok result dropped: the zero value "" when v is no string.
AsString(v) == IF v.t = "str" THEN v.s ELSE <<>>

\* switch v := data["price"].(type) { case float64: priceMin = v }
AsFloat(v) == IF v.t = "num" THEN v.n ELSE 0

\* m[key] of a Go map: the zero value (nil interface) when the key is absent.
Get(m, key) == IF key \in DOMAIN m THEN m[key] ELSE Nil

\* ---------------------------------------------------------------- makeSlug

\* strings.ToLower on the characters the model uses.
ToLower(c) ==
    CASE c = "F" -> "f"
      [] c = "B" -> "b"
      [] c = "E" -> "e"
      [] OTHER -> c

\* norm.NFD, then runes.Remove(runes.In(unicode.Mn)), then norm.NFC: a letter
\* with a combining mark loses the mark ("o^" stands for o with circumflex).
StripMarks(c) ==
    CASE c = "o^" -> "o"
      [] OTHER -> c

SlugKeep == {"a", "b", "e", "f", "o", "r", "1", "2"}

RECURSIVE SlugMap(_)
\* strings.Map: keep a-z and 0-9, turn ' ' and '-' into '-', drop the rest.
SlugMap(s) ==
    IF s = <<>> THEN <<>>
    ELSE LET c == StripMarks(ToLower(Head(s)))
             rest == SlugMap(Tail(s))
         IN  IF c \in SlugKeep THEN <<c>> \o rest
             ELSE IF c = " " \/ c = "-" THEN <<"-">> \o rest
             ELSE rest

RECURSIVE CollapseOnce(_)
\* strings.ReplaceAll(result, "--", "-"): one left-to-right pass.
CollapseOnce(s) ==
    IF Len(s) < 2 THEN s
    ELSE IF s[1] = "-" /\ s[2] = "-" THEN <<"-">> \o CollapseOnce(Tail(Tail(s)))
    ELSE <<Head(s)>> \o CollapseOnce(Tail(s))

HasDoubleDash(s) == \E i \in 1..(Len(s) - 1) : s[i] = "-" /\ s[i + 1] = "-"

RECURSIVE Collapse(_)
\* for strings.Contains(result, "--") { result = strings.ReplaceAll(...) }
Collapse(s) == IF HasDoubleDash(s) THEN Collapse(CollapseOnce(s)) ELSE s

RECURSIVE TrimLeftDash(_)
TrimLeftDash(s) ==
    IF s # <<>> /\ Head(s) = "-" THEN TrimLeftDash(Tail(s)) ELSE s

RECURSIVE TrimRightDash(_)
TrimRightDash(s) ==
    IF s # <<>> /\ s[Len(s)] = "-" THEN TrimRightDash(SubSeq(s, 1, Len(s) - 1))
    ELSE s

\* strings.Trim(result, "-")
TrimDash(s) == TrimRightDash(TrimLeftDash(s))

makeSlug(s) == TrimDash(Collapse(SlugMap(s)))

\* --------------------------------------------------------------- mapFields

\* autoMap of mapFields: the heuristic source names of each canonical field.
autoMap ==
    [title         |-> <<"PRODUCTNAME", "PRODUCT", "NAME", "NAZOV", "TITLE">>,
     description   |-> <<"DESCRIPTION", "POPIS", "DESC">>,
     price         |-> <<"PRICE_VAT", "PRICE", "CENA">>,
     ean           |-> <<"EAN", "EAN13", "GTIN", "BARCODE">>,
     sku           |-> <<"SKU", "ITEM_ID", "PRODUCTNO", "KOD">>,
     brand         |-> <<"MANUFACTURER", "BRAND", "VYROBCE", "ZNACKA">>,
     image_url     |-> <<"IMGURL", "IMG_URL", "IMAGE", "OBRAZOK">>,
     affiliate_url |-> <<"URL", "ITEM_URL", "PRODUCT_URL">>]

\* The first loop of mapFields: result[targetField] = item[sourceField] for
\* every mapping entry with a non-empty target whose source is a key of the
\* item (the value is not looked at).  Go ranges over the mapping in no fixed
\* order; the feeds of this model never map two sources to one target.
ExplicitValue(item, mapping, target) ==
    LET srcs == {src \in DOMAIN mapping :
                    mapping[src] = target /\ target # "" /\ src \in DOMAIN item}
    IN  IF srcs = {} THEN Nil ELSE item[CHOOSE src \in srcs : TRUE]

RECURSIVE FirstAuto(_, _)
\* for _, src := range sources { if val, ok := item[src]; ok && val != "" {...; break} }
FirstAuto(item, sources) ==
    IF sources = <<>> THEN Nil
    ELSE IF Head(sources) \in DOMAIN item /\ item[Head(sources)] # Str(<<>>)
         THEN item[Head(sources)]
         ELSE FirstAuto(item, Tail(sources))

\* mapFields(item, mapping): the result map, read through Get-like total
\* access (Nil = key absent).  Targets outside autoMap are only set by the
\* mapping.
mapFields(item, mapping) ==
    [target \in DOMAIN autoMap \cup {"short_description"} |->
        LET explicit == ExplicitValue(item, mapping, target)
        IN  IF explicit # Nil THEN explicit
            ELSE IF target \in DOMAIN autoMap
                 THEN FirstAuto(item, autoMap[target])
                 ELSE Nil]

\* ------------------------------------------------------------ product store

\* products is a sequence of rows; a row's id is its index (uuid.New).
NoId == 0

\* client.Get returned an error instead of a response.
TransportError == -1

ProductIdsByEan(store, ean) == {id \in 1..Len(store) : store[id].ean = ean}

ProductIdsBySku(store, sku) == {id \in 1..Len(store) : store[id].sku = sku}

\* products.slug is UNIQUE (part_005 line 49); a full store refuses the row
\* too, and so does a failing connection (ok = FALSE).
InsertAccepted(store, slug, ok) ==
    /\ ok
    /\ Len(store) < MaxProducts
    /\ \A id \in 1..Len(store) : store[id].slug # slug

\* createProductFromFeed's INSERT: the row written from the mapped fields.
\* attributes is the set of product_attributes rows of the product, as
\* (name, value) pairs: the INSERT into products makes none.
FeedProductRow(data, feedID) ==
    [title       |-> AsString(data["title"]),
     slug        |-> makeSlug(AsString(data["title"])),
     description |-> AsString(data["description"]),
     image_url   |-> AsString(data["image_url"]),
     ean         |-> AsString(data["ean"]),
     sku         |-> AsString(data["sku"]),
     price       |-> AsFloat(data["price"]),
     category_id |-> NoId,
     feed_id     |-> feedID,
     attributes  |-> {}]

\* COALESCE(NULLIF($n,''), column)
CoalesceNullIf(new, old) == IF new = <<>> THEN old ELSE new

\* An UPDATE that writes the record's EAN and SKU as well.
FeedUpdatedRowRekeyed(row, data) ==
    [row EXCEPT !.title       = CoalesceNullIf(AsString(data["title"]), @),
                !.description = CoalesceNullIf(AsString(data["description"]), @),
                !.image_url   = CoalesceNullIf(AsString(data["image_url"]), @),
                !.price       = AsFloat(data["price"]),
                !.ean         = AsString(data["ean"]),
                !.sku         = AsString(data["sku"])]

\* updateProductFromFeed's UPDATE, applied to the row it addresses.
FeedUpdatedRow(row, data) ==
    [row EXCEPT !.title       = CoalesceNullIf(AsString(data["title"]), @),
                !.description = CoalesceNullIf(AsString(data["description"]), @),
                !.image_url   = CoalesceNullIf(AsString(data["image_url"]), @),
                !.price       = AsFloat(data["price"])]

\* ------------------------------------------------------------ the universe

sFoo == <<"F", "o", "o">>
sFooLower == <<"f", "o", "o">>
sBar == <<"B", "a", "r">>
ean1 == <<"1">>
ean2 == <<"2">>
skuA == <<"a">>
skuB == <<"b">>

\* Raw items as the extractors return them: field name -> value.
itemFoo1A == [PRODUCTNAME |-> Str(sFoo), EAN |-> Str(ean1), ITEM_ID |-> Str(skuA)]
itemBar2B == [PRODUCTNAME |-> Str(sBar), EAN |-> Str(ean2), ITEM_ID |-> Str(skuB)]
\* EAN of the first, SKU of the second
itemFoo1B == [PRODUCTNAME |-> Str(sFooLower), EAN |-> Str(ean1), ITEM_ID |-> Str(skuB)]
\* no natural key at all
itemBarNoKey == [PRODUCTNAME |-> Str(sBar)]
\* a vendor title column that is present but empty, found through the
\* mapping; parseFullXML drops empty values, so only a JSON or CSV item has one
itemEmptyTitle == [NAZOV |-> Str(<<>>), EAN |-> Str(ean2)]
\* SKU only
itemFooSkuA == [PRODUCTNAME |-> Str(sFoo), ITEM_ID |-> Str(skuA)]

\* What a download can deliver: the HTTP status and the body.  A body is kept
\* as its format and the item list its extractor finds in it.
Responses ==
    {[code |-> 200, format |-> "xml", items |-> <<itemFoo1A, itemBar2B>>],
     [code |-> 200, format |-> "xml", items |-> <<itemFoo1B>>],
     [code |-> 200, format |-> "json", items |-> <<itemEmptyTitle, itemBarNoKey>>],
     [code |-> 200, format |-> "xml", items |-> <<itemFooSkuA>>],
     [code |-> 200, format |-> "xml", items |-> <<>>],
     [code |-> 200, format |-> "junk", items |-> <<>>],
     [code |-> 404, format |-> "junk", items |-> <<>>]}

\* feeds rows: the id that exists and one that does not.
KnownFeeds == {"f1"}
FeedIds == {"f0", "f1"}

NoMapping == [src \in {} |-> ""]
FeedConfigs ==
    {[type |-> "xml", field_mapping |-> [NAZOV |-> "title"]],
     [type |-> "json", field_mapping |-> [NAZOV |-> "title"]],
     [type |-> "rss", field_mapping |-> NoMapping]}

\* --------------------------------------------------------------- the state

VARIABLES
    impl,            \* which iteration of the handlers package runs
    feeds,           \* the feeds table: id -> row
    products,        \* the products table
    progressObjs,    \* the heap of *ImportProgress objects, in allocation order
    importProgress,  \* the progress map: feed id -> object (0: no entry)
    runs,            \* the background goroutines, in launch order
    lastResponse,    \* the answer of the last HTTP handler that returned
    remote,          \* what the feed URLs can deliver: the set of responses
    categories,      \* the categories table
    host,            \* the server process: state "up" or "crashed", and whether
                     \* its ELASTICSEARCH_URL can be parsed as a URL
    poll,            \* the GetImportProgress request in flight, if any
    call,            \* the last application of a function of the pipeline
    resolvers        \* the goroutines inside findOrCreateCategory, in call order

vars == <<impl, feeds, products, progressObjs, importProgress, runs, lastResponse,
          remote, categories, host, poll, call, resolvers>>

\* What the import handlers and the background run never touch.
aux == <<remote, categories, host, poll, call, resolvers>>

NoPoll == [pc |-> "none", feed_id |-> "", ptr |-> 0]
NoCall == [fn |-> "none"]

Terminal == {"completed", "failed"}

\* &ImportProgress{FeedID, Status: "downloading", Message, Logs: {start line}}
NewProgress(feedID) ==
    [feed_id |-> feedID, status |-> "downloading", message |-> "downloading",
     total |-> 0, processed |-> 0, created |-> 0, updated |-> 0, skipped |-> 0,
     errors |-> 0, percent |-> 0, logs |-> <<"Import started">>,
     success |-> 0, failed |-> 0]

\* &ImportProgress{FeedID, Status: "downloading", StartedAt} of importFeed.
NewLegacyProgress(feedID) ==
    [feed_id |-> feedID, status |-> "downloading", message |-> "",
     total |-> 0, processed |-> 0, created |-> 0, updated |-> 0, skipped |-> 0,
     errors |-> 0, percent |-> 0, logs |-> <<>>,
     success |-> 0, failed |-> 0]

\* The locals of one background run: where it is (pc), the feed it was
\* launched with, the extracted items and the loop index, the match and the
\* write's outcome, the pointer p taken at completion, and obj, the entry
\* that was installed for this run (0 while there is none).  http_status is
\* resp.StatusCode (0: no answer yet, TransportError: client.Get failed) and
\* write_err tells whether the last store write returned an error; the code
\* has both values in hand and looks at neither.  results is the branch the
\* loop took for each item so far (skipped, updated, created, error).
NewRun(start, feedID, feed, obj) ==
    [pc |-> start, feed_id |-> feedID, feed |-> feed, items |-> <<>>,
     i |-> 0, existingID |-> NoId, outcome |-> "", p |-> 0,
     obj |-> obj, decoded |-> "", http_status |-> 0, write_err |-> FALSE,
     results |-> <<>>]

Live(k) == runs[k].pc # "done"

\* The categories table with the count of ids uuid.New has handed out: the
\* id of a row is the number of the uuid it was inserted with.
NoCategories == [rows |-> <<>>, minted |-> 0]

\* The process as main starts it, with an ELASTICSEARCH_URL that parses (the
\* default http://localhost:9200 when the variable is not set).
HostUp == [state |-> "up", es_url_ok |-> TRUE]

\* updateProgress(status, message) of runImport, on the heap.
updateProgress(objs, ptr, status, message) ==
    IF ptr = 0 THEN objs
    ELSE [objs EXCEPT ![ptr] =
            [@ EXCEPT !.status = status,
                      !.message = message,
                      !.logs = Append(@, message),
                      !.percent = IF objs[ptr].total > 0
                                  THEN (objs[ptr].processed * 100) \div objs[ptr].total
                                  ELSE @]]

Init ==
    /\ impl \in {"feeds", "legacy"}
    /\ feeds \in [KnownFeeds -> {[type |-> c.type, field_mapping |-> c.field_mapping,
                                  last_status |-> "idle", product_count |-> 0,
                                  import_count |-> 0]
                                 : c \in FeedConfigs}]
    /\ products = <<>>
    /\ progressObjs = <<>>
    /\ importProgress = [f \in FeedIds |-> 0]
    /\ runs = <<>>
    /\ lastResponse = [op |-> "none", feed_id |-> "", code |-> 0, status |-> ""]
    /\ remote = Responses
    /\ categories = NoCategories
    /\ host = HostUp
    /\ poll = NoPoll
    /\ call = NoCall
    /\ resolvers = <<>>

\* ------------------------------------------------- feeds.go: HTTP handlers

\* StartImport: 404 when the SELECT finds no row; otherwise install a fresh
\* entry under the lock, mark the row running, launch runImport, answer 200.
\* The entry installed before the feed row is looked up.
StartImportInstallFirst(feedID) ==
    /\ impl = "feeds"
    /\ IF feedID \notin DOMAIN feeds
       THEN /\ progressObjs' = Append(progressObjs, NewProgress(feedID))
            /\ importProgress' = [importProgress EXCEPT ![feedID] = Len(progressObjs) + 1]
            /\ lastResponse' = [op |-> "StartImport", feed_id |-> feedID,
                                code |-> 404, status |-> ""]
            /\ UNCHANGED <<aux, impl, feeds, products, runs>>
       ELSE /\ Len(runs) < MaxTriggers
            /\ progressObjs' = Append(progressObjs, NewProgress(feedID))
            /\ importProgress' = [importProgress EXCEPT ![feedID] = Len(progressObjs) + 1]
            /\ feeds' = [feeds EXCEPT ![feedID].last_status = "running"]
            /\ runs' = Append(runs, NewRun("download", feedID, feeds[feedID],
                                           Len(progressObjs) + 1))
            /\ lastResponse' = [op |-> "StartImport", feed_id |-> feedID,
                                code |-> 200, status |-> ""]
            /\ UNCHANGED <<aux, impl, products>>

\* The new entry built from the previous one: status and log line of the new
\* run, counters of the old.
StartImportMerge(feedID) ==
    /\ impl = "feeds"
    /\ IF feedID \notin DOMAIN feeds
       THEN /\ lastResponse' = [op |-> "StartImport", feed_id |-> feedID,
                                code |-> 404, status |-> ""]
            /\ UNCHANGED <<aux, impl, feeds, products, progressObjs, importProgress, runs>>
       ELSE /\ Len(runs) < MaxTriggers
            /\ progressObjs' = Append(progressObjs,
                    IF importProgress[feedID] = 0 THEN NewProgress(feedID)
                    ELSE [progressObjs[importProgress[feedID]] EXCEPT
                             !.status = "downloading", !.message = "downloading",
                             !.logs = Append(@, "Import started")])
            /\ importProgress' = [importProgress EXCEPT ![feedID] = Len(progressObjs) + 1]
            /\ feeds' = [feeds EXCEPT ![feedID].last_status = "running"]
            /\ runs' = Append(runs, NewRun("download", feedID, feeds[feedID],
                                           Len(progressObjs) + 1))
            /\ lastResponse' = [op |-> "StartImport", feed_id |-> feedID,
                                code |-> 200, status |-> ""]
            /\ UNCHANGED <<aux, impl, products>>

StartImport(feedID) ==
    /\ impl = "feeds"
    /\ IF feedID \notin DOMAIN feeds
       THEN /\ lastResponse' = [op |-> "StartImport", feed_id |-> feedID,
                                code |-> 404, status |-> ""]
            /\ UNCHANGED <<aux, impl, feeds, products, progressObjs, importProgress, runs>>
       ELSE /\ Len(runs) < MaxTriggers
            /\ progressObjs' = Append(progressObjs, NewProgress(feedID))
            /\ importProgress' = [importProgress EXCEPT ![feedID] = Len(progressObjs) + 1]
            /\ feeds' = [feeds EXCEPT ![feedID].last_status = "running"]
            /\ runs' = Append(runs, NewRun("download", feedID, feeds[feedID],
                                           Len(progressObjs) + 1))
            /\ lastResponse' = [op |-> "StartImport", feed_id |-> feedID,
                                code |-> 200, status |-> ""]
            /\ UNCHANGED <<aux, impl, products>>

\* The answer of GetImportProgress: the entry's status, or idle without one.
ProgressAnswer(feedID) ==
    IF importProgress[feedID] = 0 THEN "idle"
    ELSE progressObjs[importProgress[feedID]].status

GetImportProgress(feedID) ==
    /\ lastResponse' = [op |-> "GetImportProgress", feed_id |-> feedID,
                        code |-> 200, status |-> ProgressAnswer(feedID)]
    /\ UNCHANGED <<aux, impl, feeds, products, progressObjs, importProgress, runs>>

\* ------------------------------------------------------ feeds.go: runImport

\* Every progress line of the loop is written each LogEvery items.
LogEvery == 100

\* The switch on feed.Type: an extractor runs only for xml, json and csv, and
\* finds the items of a body of its own format; items stays nil otherwise.
ParseFull(type, body) ==
    IF type \in {"xml", "json", "csv"} /\ body.format = type THEN body.items
    ELSE <<>>

\* importProgress[feedID] as runImport reads it inside a lock region.
Entry(feedID) == importProgress[feedID]

\* The item the loop is at, mapped.
ProductData(k) == mapFields(runs[k].items[runs[k].i + 1], runs[k].feed.field_mapping)

AtItem(k) ==
    /\ k \in 1..Len(runs)
    /\ runs[k].pc = "item"
    /\ runs[k].i < Len(runs[k].items)

\* productData["title"] == ""
TitleIsEmpty(data) == data["title"] = Str(<<>>)

\* client.Get fails: updateProgress("failed", ...), then the feeds row.
runImport_DownloadFailed(k) ==
    /\ impl = "feeds"
    /\ k \in 1..Len(runs)
    /\ runs[k].pc = "download"
    /\ progressObjs' = updateProgress(progressObjs, Entry(runs[k].feed_id),
                                      "failed", "Download failed")
    /\ runs' = [runs EXCEPT ![k].pc = "fail_db", ![k].http_status = TransportError]
    /\ UNCHANGED <<aux, impl, feeds, products, importProgress, lastResponse>>

runImport_FailDb(k) ==
    /\ impl = "feeds"
    /\ k \in 1..Len(runs)
    /\ runs[k].pc = "fail_db"
    /\ feeds' = [feeds EXCEPT ![runs[k].feed_id].last_status = "failed"]
    /\ runs' = [runs EXCEPT ![k].pc = "done"]
    /\ UNCHANGED <<aux, impl, products, progressObjs, importProgress, lastResponse>>

\* runImport_Downloaded without its updateProgress("parsing", ...).
runImport_DownloadedSilently(k) ==
    /\ impl = "feeds"
    /\ k \in 1..Len(runs)
    /\ runs[k].pc = "download"
    /\ \E resp \in remote :
          runs' = [runs EXCEPT ![k].pc = "total",
                               ![k].http_status = resp.code,
                               ![k].items = ParseFull(runs[k].feed.type, resp)]
    /\ UNCHANGED <<aux, impl, feeds, products, progressObjs, importProgress, lastResponse>>

\* client.Get answers (whatever the status code): the body is read,
\* updateProgress("parsing", ...), and the extractor of feed.Type runs.
runImport_Downloaded(k) ==
    /\ impl = "feeds"
    /\ k \in 1..Len(runs)
    /\ runs[k].pc = "download"
    /\ \E resp \in remote :
          runs' = [runs EXCEPT ![k].pc = "total",
                               ![k].http_status = resp.code,
                               ![k].items = ParseFull(runs[k].feed.type, resp)]
    /\ progressObjs' = updateProgress(progressObjs, Entry(runs[k].feed_id),
                                      "parsing", "Parsujem feed...")
    /\ UNCHANGED <<aux, impl, feeds, products, importProgress, lastResponse>>

\* importProgress[feedID].Total = len(items)
runImport_SetTotal(k) ==
    /\ impl = "feeds"
    /\ k \in 1..Len(runs)
    /\ runs[k].pc = "total"
    /\ progressObjs' = [progressObjs EXCEPT
                           ![Entry(runs[k].feed_id)].total = Len(runs[k].items)]
    /\ runs' = [runs EXCEPT ![k].pc = "importing"]
    /\ UNCHANGED <<aux, impl, feeds, products, importProgress, lastResponse>>

\* updateProgress("importing", ...)
runImport_Importing(k) ==
    /\ impl = "feeds"
    /\ k \in 1..Len(runs)
    /\ runs[k].pc = "importing"
    /\ progressObjs' = updateProgress(progressObjs, Entry(runs[k].feed_id),
                                      "importing", "Importujem")
    /\ runs' = [runs EXCEPT ![k].pc = "item", ![k].i = 0]
    /\ UNCHANGED <<aux, impl, feeds, products, importProgress, lastResponse>>

\* if productData["title"] == "" { Skipped++; Processed++; continue }
runImport_Skip(k) ==
    /\ impl = "feeds"
    /\ AtItem(k)
    /\ TitleIsEmpty(ProductData(k))
    /\ progressObjs' = [progressObjs EXCEPT
                           ![Entry(runs[k].feed_id)].skipped = @ + 1,
                           ![Entry(runs[k].feed_id)].processed = @ + 1]
    /\ runs' = [runs EXCEPT ![k].i = @ + 1, ![k].results = Append(@, "skipped")]
    /\ UNCHANGED <<aux, impl, feeds, products, importProgress, lastResponse>>

\* The loop goes from the title check straight to the write: no lookup.
runImport_LookupNone(k) ==
    /\ impl = "feeds"
    /\ AtItem(k)
    /\ ~TitleIsEmpty(ProductData(k))
    /\ runs' = [runs EXCEPT ![k].pc = "write", ![k].existingID = NoId]
    /\ UNCHANGED <<aux, impl, feeds, products, progressObjs, importProgress, lastResponse>>

\* The EAN query left out: the SKU query decides alone.
runImport_LookupEanSkipped(k) ==
    /\ impl = "feeds"
    /\ AtItem(k)
    /\ ~TitleIsEmpty(ProductData(k))
    /\ runs' = [runs EXCEPT ![k].pc = "sku", ![k].existingID = NoId]
    /\ UNCHANGED <<aux, impl, feeds, products, progressObjs, importProgress, lastResponse>>

\* SELECT id FROM products WHERE ean=$1, when the EAN is a non-empty string.
runImport_LookupEan(k) ==
    /\ impl = "feeds"
    /\ AtItem(k)
    /\ ~TitleIsEmpty(ProductData(k))
    /\ LET ean == AsString(ProductData(k)["ean"])
           found == ProductIdsByEan(products, ean)
       IN  IF ean # <<>> /\ found # {}
           THEN \E id \in found :
                   runs' = [runs EXCEPT ![k].pc = "sku", ![k].existingID = id]
           ELSE runs' = [runs EXCEPT ![k].pc = "sku", ![k].existingID = NoId]
    /\ UNCHANGED <<aux, impl, feeds, products, progressObjs, importProgress, lastResponse>>

\* if existingID == "": SELECT id FROM products WHERE sku=$1, for a non-empty SKU.
runImport_LookupSku(k) ==
    /\ impl = "feeds"
    /\ k \in 1..Len(runs)
    /\ runs[k].pc = "sku"
    /\ LET sku == AsString(ProductData(k)["sku"])
           found == ProductIdsBySku(products, sku)
       IN  IF runs[k].existingID = NoId /\ sku # <<>> /\ found # {}
           THEN \E id \in found :
                   runs' = [runs EXCEPT ![k].pc = "write", ![k].existingID = id]
           ELSE runs' = [runs EXCEPT ![k].pc = "write"]
    /\ UNCHANGED <<aux, impl, feeds, products, progressObjs, importProgress, lastResponse>>

\* updateProductFromFeed: the UPDATE's error is dropped, the caller counts
\* the record as updated whatever happened.
runImport_Update(k) ==
    /\ impl = "feeds"
    /\ k \in 1..Len(runs)
    /\ runs[k].pc = "write"
    /\ runs[k].existingID # NoId
    /\ \E ok \in BOOLEAN :
          /\ products' = IF ok
                         THEN [products EXCEPT ![runs[k].existingID] =
                                  FeedUpdatedRow(@, ProductData(k))]
                         ELSE products
          /\ runs' = [runs EXCEPT ![k].pc = "count", ![k].outcome = "updated",
                                  ![k].write_err = ~ok]
    /\ UNCHANGED <<aux, impl, feeds, progressObjs, importProgress, lastResponse>>

\* createProductFromFeed: the new id, or "" when the INSERT fails.
runImport_Create(k) ==
    /\ impl = "feeds"
    /\ k \in 1..Len(runs)
    /\ runs[k].pc = "write"
    /\ runs[k].existingID = NoId
    /\ LET row == FeedProductRow(ProductData(k), runs[k].feed_id)
       IN  \E ok \in BOOLEAN :
              IF InsertAccepted(products, row.slug, ok)
              THEN /\ products' = Append(products, row)
                   /\ runs' = [runs EXCEPT ![k].pc = "count", ![k].outcome = "created",
                                           ![k].write_err = FALSE]
              ELSE /\ products' = products
                   /\ runs' = [runs EXCEPT ![k].pc = "count", ![k].outcome = "error",
                                           ![k].write_err = TRUE]
    /\ UNCHANGED <<aux, impl, feeds, progressObjs, importProgress, lastResponse>>

\* CountOutcome with the Errors++ of a failed create forgotten.
CountOutcomeNoErrors(entry, outcome) ==
    CASE outcome = "updated" -> [entry EXCEPT !.updated = @ + 1]
      [] outcome = "created" -> [entry EXCEPT !.created = @ + 1]
      [] OTHER -> entry

\* The lock region after the write: Updated++, Created++ or Errors++.
CountOutcome(entry, outcome) ==
    CASE outcome = "updated" -> [entry EXCEPT !.updated = @ + 1]
      [] outcome = "created" -> [entry EXCEPT !.created = @ + 1]
      [] OTHER -> [entry EXCEPT !.errors = @ + 1]

runImport_Count(k) ==
    /\ impl = "feeds"
    /\ k \in 1..Len(runs)
    /\ runs[k].pc = "count"
    /\ progressObjs' = [progressObjs EXCEPT ![Entry(runs[k].feed_id)] =
                           CountOutcome(@, runs[k].outcome)]
    /\ runs' = [runs EXCEPT ![k].pc = "processed",
                            ![k].results = Append(@, runs[k].outcome)]
    /\ UNCHANGED <<aux, impl, feeds, products, importProgress, lastResponse>>

\* ProcessedStep with the Processed++ forgotten.
ProcessedStepPercentOnly(objs, ptr, i, n) ==
    [objs EXCEPT ![ptr].percent = ((i + 1) * 100) \div n]

\* Processed++; Percent = ((i+1)*100)/len(items); every LogEvery items a
\* progress line through updateProgress("importing", ...).
ProcessedStep(objs, ptr, i, n) ==
    LET counted == [objs EXCEPT ![ptr].processed = @ + 1,
                                ![ptr].percent = ((i + 1) * 100) \div n]
    IN  IF (i + 1) % LogEvery = 0
        THEN updateProgress(counted, ptr, "importing", "Spracovane")
        ELSE counted

runImport_Processed(k) ==
    /\ impl = "feeds"
    /\ k \in 1..Len(runs)
    /\ runs[k].pc = "processed"
    /\ progressObjs' = ProcessedStep(progressObjs, Entry(runs[k].feed_id),
                                     runs[k].i, Len(runs[k].items))
    /\ runs' = [runs EXCEPT ![k].pc = "item", ![k].i = @ + 1,
                            ![k].existingID = NoId, ![k].outcome = "",
                            ![k].write_err = FALSE]
    /\ UNCHANGED <<aux, impl, feeds, products, importProgress, lastResponse>>

\* CompleteEntry without the status and the message.
CompleteEntryKeepStatus(entry) ==
    [entry EXCEPT !.percent = 100, !.logs = Append(@, "Completed")]

\* After the loop: p := importProgress[feedID]; completed, 100 percent, the
\* closing log line.
CompleteEntry(entry) ==
    [entry EXCEPT !.status = "completed", !.message = "Import dokonceny",
                  !.percent = 100, !.logs = Append(@, "Completed")]

runImport_Complete(k) ==
    /\ impl = "feeds"
    /\ k \in 1..Len(runs)
    /\ runs[k].pc = "item"
    /\ runs[k].i = Len(runs[k].items)
    /\ progressObjs' = [progressObjs EXCEPT ![Entry(runs[k].feed_id)] = CompleteEntry(@)]
    /\ runs' = [runs EXCEPT ![k].pc = "feedstats", ![k].p = Entry(runs[k].feed_id)]
    /\ UNCHANGED <<aux, impl, feeds, products, importProgress, lastResponse>>

\* UPDATE feeds SET last_status='completed', product_count=p.Created+p.Updated
\* The feed row written and the finished run's entry dropped from the map.
runImport_FeedStatsCleanup(k) ==
    /\ impl = "feeds"
    /\ k \in 1..Len(runs)
    /\ runs[k].pc = "feedstats"
    /\ feeds' = [feeds EXCEPT
                    ![runs[k].feed_id].last_status = "completed",
                    ![runs[k].feed_id].product_count =
                        progressObjs[runs[k].p].created + progressObjs[runs[k].p].updated]
    /\ importProgress' = [importProgress EXCEPT ![runs[k].feed_id] = 0]
    /\ runs' = [runs EXCEPT ![k].pc = "sync"]
    /\ UNCHANGED <<aux, impl, products, progressObjs, lastResponse>>

runImport_FeedStats(k) ==
    /\ impl = "feeds"
    /\ k \in 1..Len(runs)
    /\ runs[k].pc = "feedstats"
    /\ feeds' = [feeds EXCEPT
                    ![runs[k].feed_id].last_status = "completed",
                    ![runs[k].feed_id].product_count =
                        progressObjs[runs[k].p].created + progressObjs[runs[k].p].updated]
    /\ runs' = [runs EXCEPT ![k].pc = "sync"]
    /\ UNCHANGED <<aux, impl, products, progressObjs, importProgress, lastResponse>>

\* syncFeedProductsToES: the products of the feed are selected and, when
\* there are any, sent through es.BulkIndex.  BulkIndex drops the error of
\* http.NewRequest and sets a header on the request: with a base URL that
\* does not parse the request is nil and the goroutine panics.  Nothing in
\* the program recovers, so the panic ends the process.
runImport_Sync(k) ==
    /\ impl = "feeds"
    /\ k \in 1..Len(runs)
    /\ runs[k].pc = "sync"
    /\ IF /\ \E id \in 1..Len(products) : products[id].feed_id = runs[k].feed_id
          /\ ~host.es_url_ok
       THEN /\ runs' = [runs EXCEPT ![k].pc = "panicked"]
            /\ host' = [host EXCEPT !.state = "crashed"]
       ELSE /\ runs' = [runs EXCEPT ![k].pc = "done"]
            /\ host' = host
    /\ UNCHANGED <<impl, feeds, products, progressObjs, importProgress, lastResponse,
                   remote, categories, poll, call, resolvers>>

runImport(k) ==
    \/ runImport_DownloadFailed(k)
    \/ runImport_FailDb(k)
    \/ runImport_Downloaded(k)
    \/ runImport_SetTotal(k)
    \/ runImport_Importing(k)
    \/ runImport_Skip(k)
    \/ runImport_LookupEan(k)
    \/ runImport_LookupSku(k)
    \/ runImport_Update(k)
    \/ runImport_Create(k)
    \/ runImport_Count(k)
    \/ runImport_Processed(k)
    \/ runImport_Complete(k)
    \/ runImport_FeedStats(k)
    \/ runImport_Sync(k)

\* ------------------------------------ part_001: StartImport and importFeed

\* StartImport of part_001: 404 when the SELECT finds no row; otherwise the
\* goroutine is launched and 200 answered.  The progress entry is not
\* touched here: importFeed stores it when it starts to run.
StartImportLegacy(feedID) ==
    /\ impl = "legacy"
    /\ IF feedID \notin DOMAIN feeds
       THEN /\ lastResponse' = [op |-> "StartImport", feed_id |-> feedID,
                                code |-> 404, status |-> ""]
            /\ UNCHANGED <<aux, impl, feeds, products, progressObjs, importProgress, runs>>
       ELSE /\ Len(runs) < MaxTriggers
            /\ runs' = Append(runs, NewRun("store", feedID, feeds[feedID], 0))
            /\ lastResponse' = [op |-> "StartImport", feed_id |-> feedID,
                                code |-> 200, status |-> ""]
            /\ UNCHANGED <<aux, impl, feeds, products, progressObjs, importProgress>>

\* xml.Unmarshal(body, &feed).  It fails on a body that is no XML document,
\* and it fails at the first SHOPITEM of one that is: HeurekaProduct tags
\* both Price and PriceVAT with PRICE_VAT, and encoding/xml rejects a struct
\* with two fields of one element name (TagPathError) when it first decodes
\* into it.  Only a document without items decodes.
HeurekaUnmarshal(body) ==
    IF body.format = "xml" /\ body.items = <<>> THEN "ok" ELSE "error"

\* progress := &ImportProgress{...}; h.importProgress.Store(feedID, progress)
importFeed_Store(k) ==
    /\ impl = "legacy"
    /\ k \in 1..Len(runs)
    /\ runs[k].pc = "store"
    /\ progressObjs' = Append(progressObjs, NewLegacyProgress(runs[k].feed_id))
    /\ importProgress' = [importProgress EXCEPT
                             ![runs[k].feed_id] = Len(progressObjs) + 1]
    /\ runs' = [runs EXCEPT ![k].pc = "download", ![k].obj = Len(progressObjs) + 1]
    /\ UNCHANGED <<aux, impl, feeds, products, lastResponse>>

\* client.Get fails: Status = "failed", Message, return.
importFeed_DownloadFailed(k) ==
    /\ impl = "legacy"
    /\ k \in 1..Len(runs)
    /\ runs[k].pc = "download"
    /\ progressObjs' = [progressObjs EXCEPT
                           ![runs[k].obj].status = "failed",
                           ![runs[k].obj].message = "Failed to download"]
    /\ runs' = [runs EXCEPT ![k].pc = "done", ![k].http_status = TransportError]
    /\ UNCHANGED <<aux, impl, feeds, products, importProgress, lastResponse>>

\* client.Get answers (whatever the status code): the body is read and
\* Status = "parsing".
importFeed_Downloaded(k) ==
    /\ impl = "legacy"
    /\ k \in 1..Len(runs)
    /\ runs[k].pc = "download"
    /\ \E resp \in remote :
          runs' = [runs EXCEPT ![k].pc = "parse",
                               ![k].http_status = resp.code,
                               ![k].decoded = HeurekaUnmarshal(resp)]
    /\ progressObjs' = [progressObjs EXCEPT ![runs[k].obj].status = "parsing"]
    /\ UNCHANGED <<aux, impl, feeds, products, importProgress, lastResponse>>

\* xml.Unmarshal returned an error: Status = "failed", Message, return.
importFeed_ParseFailed(k) ==
    /\ impl = "legacy"
    /\ k \in 1..Len(runs)
    /\ runs[k].pc = "parse"
    /\ runs[k].decoded = "error"
    /\ progressObjs' = [progressObjs EXCEPT
                           ![runs[k].obj].status = "failed",
                           ![runs[k].obj].message = "Failed to parse"]
    /\ runs' = [runs EXCEPT ![k].pc = "done"]
    /\ UNCHANGED <<aux, impl, feeds, products, importProgress, lastResponse>>

\* Total = len(feed.ShopItems); Status = "importing".  The loop over
\* ShopItems has nothing to do: a decoded feed has no items.
importFeed_Parsed(k) ==
    /\ impl = "legacy"
    /\ k \in 1..Len(runs)
    /\ runs[k].pc = "parse"
    /\ runs[k].decoded = "ok"
    /\ progressObjs' = [progressObjs EXCEPT
                           ![runs[k].obj].total = Len(runs[k].items),
                           ![runs[k].obj].status = "importing"]
    /\ runs' = [runs EXCEPT ![k].pc = "feedstats"]
    /\ UNCHANGED <<aux, impl, feeds, products, importProgress, lastResponse>>

\* UPDATE feeds SET last_import = NOW(), import_count = import_count + Success
importFeed_FeedStats(k) ==
    /\ impl = "legacy"
    /\ k \in 1..Len(runs)
    /\ runs[k].pc = "feedstats"
    /\ feeds' = [feeds EXCEPT ![runs[k].feed_id].import_count =
                                  @ + progressObjs[runs[k].obj].success]
    /\ runs' = [runs EXCEPT ![k].pc = "complete"]
    /\ UNCHANGED <<aux, impl, products, progressObjs, importProgress, lastResponse>>

\* Status = "completed"; Message = "Imported n products, m failed"
importFeed_Complete(k) ==
    /\ impl = "legacy"
    /\ k \in 1..Len(runs)
    /\ runs[k].pc = "complete"
    /\ progressObjs' = [progressObjs EXCEPT
                           ![runs[k].obj].status = "completed",
                           ![runs[k].obj].message = "Imported"]
    /\ runs' = [runs EXCEPT ![k].pc = "done"]
    /\ UNCHANGED <<aux, impl, feeds, products, importProgress, lastResponse>>

importFeed(k) ==
    \/ importFeed_Store(k)
    \/ importFeed_DownloadFailed(k)
    \/ importFeed_Downloaded(k)
    \/ importFeed_ParseFailed(k)
    \/ importFeed_Parsed(k)
    \/ importFeed_FeedStats(k)
    \/ importFeed_Complete(k)

\* ------------------------------------------------------- the specifications

Next ==
    \/ \E feedID \in FeedIds : StartImport(feedID)
    \/ \E feedID \in FeedIds : StartImportLegacy(feedID)
    \/ \E feedID \in FeedIds : GetImportProgress(feedID)
    \/ \E k \in 1..MaxTriggers : runImport(k)
    \/ \E k \in 1..MaxTriggers : importFeed(k)

Spec == Init /\ [][Next]_vars

\* The same program with a caller that triggers a feed only while no run of
\* that feed is in flight: runs of one feed follow each other.
NoRunInFlight(feedID) ==
    \A k \in 1..Len(runs) : runs[k].feed_id = feedID => ~Live(k)

NextSerial ==
    \/ \E feedID \in FeedIds : NoRunInFlight(feedID) /\ StartImport(feedID)
    \/ \E feedID \in FeedIds : NoRunInFlight(feedID) /\ StartImportLegacy(feedID)
    \/ \E feedID \in FeedIds : GetImportProgress(feedID)
    \/ \E k \in 1..MaxTriggers : runImport(k)
    \/ \E k \in 1..MaxTriggers : importFeed(k)

SerialSpec == Init /\ [][NextSerial]_vars

\* The same with the Go scheduler running every goroutine that can take a
\* step: the download and the store calls of a step return within it.
FairSerialSpec ==
    /\ Init
    /\ [][NextSerial]_vars
    /\ \A k \in 1..MaxTriggers : WF_vars(runImport(k)) /\ WF_vars(importFeed(k))

\* GetImportProgress in its two parts.  The first is the lock region (RLock,
\* the map lookup, RUnlock; importProgress.Load in part_001): without an
\* entry idle is answered at once, with one the handler keeps the pointer.
GetImportProgress_Load(feedID) ==
    /\ poll.pc = "none"
    /\ IF importProgress[feedID] = 0
       THEN /\ lastResponse' = [op |-> "GetImportProgress", feed_id |-> feedID,
                                code |-> 200, status |-> "idle"]
            /\ poll' = poll
       ELSE /\ poll' = [pc |-> "marshal", feed_id |-> feedID,
                        ptr |-> importProgress[feedID]]
            /\ lastResponse' = lastResponse
    /\ UNCHANGED <<impl, feeds, products, progressObjs, importProgress, runs,
                   remote, categories, host, call, resolvers>>

\* The second is c.JSON(... "data": progress): the fields of the entry are
\* read through the pointer, after the lock was released.
GetImportProgress_Marshal ==
    /\ poll.pc = "marshal"
    /\ lastResponse' = [op |-> "GetImportProgress", feed_id |-> poll.feed_id,
                        code |-> 200, status |-> progressObjs[poll.ptr].status]
    /\ poll' = NoPoll
    /\ UNCHANGED <<impl, feeds, products, progressObjs, importProgress, runs,
                   remote, categories, host, call, resolvers>>

\* The program with the poll handler in its two parts, runs of one feed
\* following each other.
RaceNext ==
    \/ \E feedID \in FeedIds : NoRunInFlight(feedID) /\ StartImport(feedID)
    \/ \E feedID \in FeedIds : NoRunInFlight(feedID) /\ StartImportLegacy(feedID)
    \/ \E feedID \in FeedIds : GetImportProgress_Load(feedID)
    \/ GetImportProgress_Marshal
    \/ \E k \in 1..MaxTriggers : runImport(k)
    \/ \E k \in 1..MaxTriggers : importFeed(k)

RaceSpec == Init /\ [][RaceNext]_vars

\* The feeds.go program fed by a source with a large payload: BulkItems
\* records, every LogEvery-th a product and the others with an empty title.
BulkItems == 300

BulkItem(i) == IF i % LogEvery = 0 THEN itemFooSkuA ELSE itemEmptyTitle

BulkBody == [code |-> 200, format |-> "json", items |-> [i \in 1..BulkItems |-> BulkItem(i)]]

BulkInit ==
    /\ impl = "feeds"
    /\ feeds \in [KnownFeeds -> {[type |-> c.type, field_mapping |-> c.field_mapping,
                                  last_status |-> "idle", product_count |-> 0,
                                  import_count |-> 0]
                                 : c \in FeedConfigs}]
    /\ products = <<>>
    /\ progressObjs = <<>>
    /\ importProgress = [f \in FeedIds |-> 0]
    /\ runs = <<>>
    /\ lastResponse = [op |-> "none", feed_id |-> "", code |-> 0, status |-> ""]
    /\ remote = {BulkBody}
    /\ categories = NoCategories
    /\ host = HostUp
    /\ poll = NoPoll
    /\ call = NoCall
    /\ resolvers = <<>>

BulkNext ==
    \/ \E feedID \in FeedIds : NoRunInFlight(feedID) /\ StartImport(feedID)
    \/ \E feedID \in FeedIds : GetImportProgress(feedID)
    \/ \E k \in 1..MaxTriggers : runImport(k)

BulkSpec == BulkInit /\ [][BulkNext]_vars

\* The same program and caller on a host whose ELASTICSEARCH_URL does not
\* parse.  A process that has died takes no further step.
FaultInit ==
    /\ impl \in {"feeds", "legacy"}
    /\ feeds \in [KnownFeeds -> {[type |-> c.type, field_mapping |-> c.field_mapping,
                                  last_status |-> "idle", product_count |-> 0,
                                  import_count |-> 0]
                                 : c \in FeedConfigs}]
    /\ products = <<>>
    /\ progressObjs = <<>>
    /\ importProgress = [f \in FeedIds |-> 0]
    /\ runs = <<>>
    /\ lastResponse = [op |-> "none", feed_id |-> "", code |-> 0, status |-> ""]
    /\ remote = Responses
    /\ categories = NoCategories
    /\ host = [HostUp EXCEPT !.es_url_ok = FALSE]
    /\ poll = NoPoll
    /\ call = NoCall
    /\ resolvers = <<>>

Running == host.state = "up"

FaultNext ==
    \/ \E feedID \in FeedIds : Running /\ NoRunInFlight(feedID) /\ StartImport(feedID)
    \/ \E feedID \in FeedIds : Running /\ NoRunInFlight(feedID) /\ StartImportLegacy(feedID)
    \/ \E feedID \in FeedIds : Running /\ GetImportProgress(feedID)
    \/ \E k \in 1..MaxTriggers : Running /\ runImport(k)
    \/ \E k \in 1..MaxTriggers : Running /\ importFeed(k)

FaultSpec == FaultInit /\ [][FaultNext]_vars

\* ------------------------------------------------------- the extractors

\* An XML payload is the token sequence xml.Decoder.Token delivers until it
\* returns an error (io.EOF or a syntax error).
TokStart(name) == [k |-> "start", v |-> name]
TokEnd(name) == [k |-> "end", v |-> name]
TokChars(text) == [k |-> "chars", v |-> text]

SpaceChars == {" ", "\n"}

RECURSIVE TrimSpaceLeft(_)
TrimSpaceLeft(s) ==
    IF s # <<>> /\ Head(s) \in SpaceChars THEN TrimSpaceLeft(Tail(s)) ELSE s

RECURSIVE TrimSpaceRight(_)
TrimSpaceRight(s) ==
    IF s # <<>> /\ s[Len(s)] \in SpaceChars
    THEN TrimSpaceRight(SubSeq(s, 1, Len(s) - 1))
    ELSE s

\* strings.TrimSpace / bytes.TrimSpace
TrimSpace(s) == TrimSpaceRight(TrimSpaceLeft(s))

\* strings.EqualFold on the element names of this model.
FoldName(name) ==
    CASE name = "shopitem" -> "SHOPITEM"
      [] name = "ShopItem" -> "SHOPITEM"
      [] OTHER -> name

EqualFold(a, b) == FoldName(a) = FoldName(b)

\* if itemPath == "" { itemPath = "SHOPITEM" }
ItemPathOrDefault(itemPath) == IF itemPath = "" THEN "SHOPITEM" ELSE itemPath

\* m[key] = value on a Go map held as a function.
MapPut(m, key, value) ==
    [x \in DOMAIN m \cup {key} |-> IF x = key THEN value ELSE m[x]]

EmptyMap == [x \in {} |-> Nil]

\* The scanner state both XML parsers keep between tokens.
XmlStart == [items |-> <<>>, currentItem |-> EmptyMap, currentElement |-> "",
             inItem |-> FALSE]

\* One turn of parseFullXML's loop: the switch on the token.
XmlStep(st, tok, itemPath) ==
    CASE tok.k = "start" ->
            IF EqualFold(tok.v, itemPath)
            THEN [st EXCEPT !.inItem = TRUE, !.currentItem = EmptyMap]
            ELSE IF st.inItem THEN [st EXCEPT !.currentElement = tok.v]
            ELSE st
      [] tok.k = "chars" ->
            IF st.inItem /\ st.currentElement # "" /\ TrimSpace(tok.v) # <<>>
            THEN [st EXCEPT !.currentItem =
                     MapPut(@, st.currentElement, Str(TrimSpace(tok.v)))]
            ELSE st
      [] tok.k = "end" ->
            IF EqualFold(tok.v, itemPath)
            THEN [st EXCEPT !.inItem = FALSE,
                            !.items = IF DOMAIN st.currentItem # {}
                                      THEN Append(@, st.currentItem) ELSE @,
                            !.currentItem = EmptyMap,
                            !.currentElement = ""]
            ELSE [st EXCEPT !.currentElement = ""]

\* e, once v has its value.
Strict(v, e) == IF v = v THEN e ELSE e

RECURSIVE XmlScan(_, _, _)
\* for { token, err := decoder.Token(); if err != nil { break }; switch ... }
\* The tokens are taken in order, one step each; the sequence is walked by
\* halves, the state after the first half computed before the second.
XmlScan(st, tokens, itemPath) ==
    IF tokens = <<>> THEN st
    ELSE IF Len(tokens) = 1 THEN XmlStep(st, tokens[1], itemPath)
    ELSE LET half == Len(tokens) \div 2
             mid == XmlScan(st, SubSeq(tokens, 1, half), itemPath)
         IN  Strict(mid, XmlScan(mid, SubSeq(tokens, half + 1, Len(tokens)),
                                 itemPath))

parseFullXML(tokens, itemPath) ==
    XmlScan(XmlStart, tokens, ItemPathOrDefault(itemPath)).items

\* The sample is full: parseXMLPreview returns from inside the loop.
PreviewSampleMax == 5

EmptyPreview == [fields |-> {}, sample |-> <<>>, total_items |-> 0]

\* One turn of parseXMLPreview's loop: the same switch, with the names of
\* the stored values collected in fieldsMap; the sample is st.items and
\* TotalItems counts with it.  Once the sample is full the function has
\* returned and no further token is read.
XmlPreviewStep(pst, tok, itemPath) ==
    IF pst.returned THEN pst
    ELSE LET next == XmlStep(pst.st, tok, itemPath)
         IN  [st |-> next,
              fieldsMap |-> IF tok.k = "chars" /\ next # pst.st
                            THEN pst.fieldsMap \cup {pst.st.currentElement}
                            ELSE pst.fieldsMap,
              returned |-> Len(next.items) >= PreviewSampleMax]

RECURSIVE XmlPreviewScan(_, _, _)
XmlPreviewScan(pst, tokens, itemPath) ==
    IF tokens = <<>> THEN pst
    ELSE IF Len(tokens) = 1 THEN XmlPreviewStep(pst, tokens[1], itemPath)
    ELSE LET half == Len(tokens) \div 2
             mid == XmlPreviewScan(pst, SubSeq(tokens, 1, half), itemPath)
         IN  Strict(mid, XmlPreviewScan(mid, SubSeq(tokens, half + 1, Len(tokens)),
                                        itemPath))

parseXMLPreview(tokens, itemPath) ==
    LET pst == XmlPreviewScan([st |-> XmlStart, fieldsMap |-> {}, returned |-> FALSE],
                              tokens, ItemPathOrDefault(itemPath))
    IN  [fields |-> pst.fieldsMap, sample |-> pst.st.items,
         total_items |-> Len(pst.st.items)]

\* A JSON payload is the value json.Unmarshal yields: an array of elements,
\* an object of named values, something else, or "bad" when it fails.
JArray(elems) == [k |-> "array", elems |-> elems, fields |-> EmptyMap]
JObject(fields) == [k |-> "object", elems |-> <<>>, fields |-> fields]
JNumber == [k |-> "number", elems |-> <<>>, fields |-> EmptyMap]
JBad == [k |-> "bad", elems |-> <<>>, fields |-> EmptyMap]

RECURSIVE JsonObjectsOf(_)
\* for _, item := range v { if m, ok := item.(map[string]interface{}); ok {...} }
JsonObjectsOf(elems) ==
    IF elems = <<>> THEN <<>>
    ELSE IF Head(elems).k = "object"
         THEN <<Head(elems).fields>> \o JsonObjectsOf(Tail(elems))
         ELSE JsonObjectsOf(Tail(elems))

JsonListKeys == <<"products", "items", "data", "results", "offers">>

RECURSIVE JsonFirstList(_, _)
\* The first of the known keys that holds an array gives the items.
JsonFirstList(fields, keys) ==
    IF keys = <<>> THEN <<>>
    ELSE IF Head(keys) \in DOMAIN fields /\ fields[Head(keys)].k = "array"
         THEN JsonObjectsOf(fields[Head(keys)].elems)
         ELSE JsonFirstList(fields, Tail(keys))

parseFullJSON(value) ==
    CASE value.k = "array" -> JsonObjectsOf(value.elems)
      [] value.k = "object" -> JsonFirstList(value.fields, JsonListKeys)
      [] OTHER -> <<>>

FirstN(seq, n) == SubSeq(seq, 1, IF Len(seq) < n THEN Len(seq) ELSE n)

parseJSONPreview(value) ==
    LET items == parseFullJSON(value)
        sample == FirstN(items, PreviewSampleMax)
    IN  [fields |-> UNION {DOMAIN sample[i] : i \in 1..Len(sample)},
         sample |-> sample,
         total_items |-> Len(items)]

\* A CSV payload is the sequence of records csv.Reader finds in it, the
\* header first; a record is its cells.  (Which delimiter splits the lines
\* is decided before, from the first line.)
RECURSIVE CsvReadable(_, _)
\* reader.Read fails on the first record whose field count is not the
\* header's (FieldsPerRecord is taken from the first record) and at the end.
CsvReadable(rows, width) ==
    IF rows = <<>> \/ Len(Head(rows)) # width THEN <<>>
    ELSE <<Head(rows)>> \o CsvReadable(Tail(rows), width)

\* item[header[j]] = val for each cell: a repeated column keeps the last.
CsvItem(header, row) ==
    [name \in {header[j] : j \in 1..Len(header)} |->
        Str(row[CHOOSE j \in 1..Len(header) :
                   /\ header[j] = name
                   /\ \A j2 \in 1..Len(header) : header[j2] = name => j2 <= j])]

parseFullCSV(records) ==
    IF records = <<>> THEN <<>>
    ELSE LET header == Head(records)
             rows == CsvReadable(Tail(records), Len(header))
         IN  [i \in 1..Len(rows) |-> CsvItem(header, rows[i])]

\* for i := 0; i < 5; i++ { row, err := reader.Read(); ... TotalItems++ }
parseCSVPreview(records) ==
    IF records = <<>> THEN EmptyPreview
    ELSE LET header == Head(records)
             rows == FirstN(CsvReadable(Tail(records), Len(header)),
                            PreviewSampleMax)
         IN  [fields |-> header,
              sample |-> [i \in 1..Len(rows) |-> CsvItem(header, rows[i])],
              total_items |-> Len(rows)]

\* ------------------------------------------------- payloads for preview

\* The largest item count of a preview payload: more than the sample holds.
MaxPreviewItems == 7
\* The most PARAM blocks of an XML item.
MaxParams == 2

Digit(i) == <<"0", "1", "2", "3", "4", "5", "6", "7", "8", "9">>[i + 1]
ItemName(i) == <<"P", Digit(i)>>
ItemEan(i) == <<"4", Digit(i)>>
ParamName(j) == <<"c", Digit(j)>>
ParamVal(i, j) == <<"v", Digit(i), Digit(j)>>

XmlLeaf(name, text) == <<TokStart(name), TokChars(text), TokEnd(name)>>

RECURSIVE XmlParams(_, _, _)
\* <PARAM> <PARAM_NAME>..</PARAM_NAME> <VAL>..</VAL> </PARAM>, blocks j..k
XmlParams(i, j, k) ==
    IF j > k THEN <<>>
    ELSE <<TokStart("PARAM"), TokChars(<<"\n", " ">>)>>
         \o XmlLeaf("PARAM_NAME", ParamName(j)) \o XmlLeaf("VAL", ParamVal(i, j))
         \o <<TokEnd("PARAM")>> \o XmlParams(i, j + 1, k)

XmlItem(tag, i, k) ==
    <<TokStart(tag), TokChars(<<"\n">>)>>
    \o XmlLeaf("PRODUCTNAME", ItemName(i)) \o XmlLeaf("EAN", ItemEan(i))
    \o XmlParams(i, 1, k) \o <<TokEnd(tag)>>

RECURSIVE XmlItems(_, _, _, _)
XmlItems(tag, i, n, k) ==
    IF i > n THEN <<>> ELSE XmlItem(tag, i, k) \o XmlItems(tag, i + 1, n, k)

Doc(format, head, tokens, value, records) ==
    [format |-> format, head |-> head, tokens |-> tokens, value |-> value,
     records |-> records]

\* <SHOP> n items with k PARAM blocks each </SHOP>
XmlDoc(lead, tag, n, k) ==
    Doc("xml", lead \o <<"<", "S">>,
        <<TokStart("SHOP")>> \o XmlItems(tag, 1, n, k) \o <<TokEnd("SHOP")>>,
        JBad, <<>>)

JsonItem(i) == [PRODUCTNAME |-> Str(ItemName(i)), EAN |-> Str(ItemEan(i))]
JsonElems(n) == [i \in 1..n |-> JObject(JsonItem(i))]
JsonDoc(head, value) == Doc("json", head, <<>>, value, <<>>)

CsvHeader == <<"PRODUCTNAME", "EAN">>
CsvRows(n) == [i \in 1..n |-> <<ItemName(i), ItemEan(i)>>]
CsvDoc(head, records) == Doc("csv", head, <<>>, JBad, records)

PreviewDocs ==
    {XmlDoc(<<>>, "SHOPITEM", n, 0) : n \in 0..MaxPreviewItems}
    \cup {XmlDoc(<<>>, "SHOPITEM", n, k) : n \in 1..3, k \in 1..MaxParams}
    \cup {XmlDoc(<<" ", "\n">>, "SHOPITEM", 2, 0), XmlDoc(<<>>, "shopitem", 2, 1)}
    \cup {JsonDoc(<<"[">>, JArray(JsonElems(n))) : n \in 0..MaxPreviewItems}
    \cup {JsonDoc(<<"{">>, JObject([products |-> JArray(JsonElems(6))])),
          JsonDoc(<<"{">>, JObject([total |-> JNumber, data |-> JArray(JsonElems(1))])),
          JsonDoc(<<"{">>, JObject([shop |-> JArray(JsonElems(2))])),
          JsonDoc(<<" ", "[">>, JArray(<<JNumber>> \o JsonElems(2))),
          JsonDoc(<<"[">>, JBad)}
    \cup {CsvDoc(<<"P">>, <<CsvHeader>> \o CsvRows(n)) : n \in 0..MaxPreviewItems}
    \cup {CsvDoc(<<>>, <<>>), CsvDoc(<<" ">>, << <<"x">> >>)}

\* What each extractor sees of a payload.  A payload of another format is a
\* one-line text: no element for the XML decoder, a failure for
\* json.Unmarshal, a lone header record for the CSV reader.
XmlTokensOf(doc) ==
    IF doc.format = "xml" THEN doc.tokens ELSE <<TokChars(doc.head)>>
JsonValueOf(doc) == IF doc.format = "json" THEN doc.value ELSE JBad
CsvRecordsOf(doc) ==
    IF doc.format = "csv" THEN doc.records ELSE << <<"text">> >>

\* ------------------------------------------- the functions of the pipeline

\* Raw items mapFields may be given: every choice of fields among MapKeys,
\* each empty or holding one of two texts.
MapKeys == {"NAZOV", "PRODUCTNAME", "NAME", "EAN"}
MapValues == {Str(<<>>), Str(sFoo), Str(sBar)}
MapItems == UNION {[K -> MapValues] : K \in SUBSET MapKeys}

\* feeds.field_mapping values: none, a vendor column for the title or for the
\* EAN, an entry without target, and a known column mapped to another field.
MapMappings ==
    {NoMapping, [NAZOV |-> "title"], [NAZOV |-> "ean"], [NAZOV |-> ""],
     [EAN |-> "title"]}

\* productData := mapFields(item, feed.FieldMapping)
Call_mapFields ==
    /\ call.fn = "none"
    /\ \E item \in MapItems, mapping \in MapMappings :
          call' = [fn |-> "mapFields",
                   arg |-> [item |-> item, mapping |-> mapping],
                   res |-> mapFields(item, mapping)]
    /\ UNCHANGED <<impl, feeds, products, progressObjs, importProgress, runs,
                   lastResponse, remote, categories, host, poll, resolvers>>

HasPrefix(s, prefix) ==
    Len(s) >= Len(prefix) /\ SubSeq(s, 1, Len(prefix)) = prefix

\* The payload classified by its first bytes as they come, untrimmed.
DetectTypeNoTrim(hint, data) ==
    IF hint # "" THEN hint
    ELSE IF HasPrefix(data, <<"<", "?", "x", "m", "l">>) \/ HasPrefix(data, <<"<">>)
         THEN "xml"
         ELSE IF HasPrefix(data, <<"[">>) \/ HasPrefix(data, <<"{">>)
              THEN "json"
              ELSE "csv"

\* detectedType := input.Type; if detectedType == "" { ... }
DetectType(hint, data) ==
    IF hint # "" THEN hint
    ELSE LET trimmed == TrimSpace(data)
         IN  IF HasPrefix(trimmed, <<"<", "?", "x", "m", "l">>)
                   \/ HasPrefix(trimmed, <<"<">>)
             THEN "xml"
             ELSE IF HasPrefix(trimmed, <<"[">>) \/ HasPrefix(trimmed, <<"{">>)
                  THEN "json"
                  ELSE "csv"

\* switch detectedType { case "xml": ...; case "json": ...; case "csv": ... }
PreviewOf(type, doc, itemPath) ==
    CASE type = "xml" -> parseXMLPreview(XmlTokensOf(doc), itemPath)
      [] type = "json" -> parseJSONPreview(JsonValueOf(doc))
      [] type = "csv" -> parseCSVPreview(CsvRecordsOf(doc))
      [] OTHER -> EmptyPreview

\* The switch on feed.Type of runImport, on the same payloads.
ExtractFull(type, doc, itemPath) ==
    CASE type = "xml" -> parseFullXML(XmlTokensOf(doc), itemPath)
      [] type = "json" -> parseFullJSON(JsonValueOf(doc))
      [] type = "csv" -> parseFullCSV(CsvRecordsOf(doc))
      [] OTHER -> <<>>

PreviewHints == {"", "xml", "json", "csv", "rss"}
PreviewItemPaths == {"", "ITEM"}
NoDoc == Doc("none", <<>>, <<>>, JBad, <<>>)

\* PreviewFeed: 400 without a URL or when the download fails; otherwise the
\* payload is classified, previewed by the parser of its type and answered.
PreviewFeed ==
    /\ call.fn = "none"
    /\ \E url \in {"", "u"}, hint \in PreviewHints, itemPath \in PreviewItemPaths :
        \E doc \in PreviewDocs \cup {NoDoc} :
          LET input == [url |-> url, type |-> hint, xml_item_path |-> itemPath]
              detectedType == DetectType(hint, doc.head)
          IN  call' =
                IF url = "" \/ doc = NoDoc
                THEN [fn |-> "PreviewFeed", arg |-> [input |-> input, doc |-> NoDoc],
                      res |-> [code |-> 400, detected_type |-> "",
                               preview |-> EmptyPreview]]
                ELSE [fn |-> "PreviewFeed", arg |-> [input |-> input, doc |-> doc],
                      res |-> [code |-> 200, detected_type |-> detectedType,
                               preview |-> PreviewOf(detectedType, doc, itemPath)]]
    /\ UNCHANGED <<impl, feeds, products, progressObjs, importProgress, runs,
                   lastResponse, remote, categories, host, poll, resolvers>>

\* ------------------------------------------ part_001: findOrCreateCategory

\* The separator of a category path.
PathSep == <<" ", "|", " ">>

RECURSIVE Split(_, _)
\* strings.Split(text, sep) for a non-empty sep: the pieces between the
\* occurrences of sep, left to right; a text without sep is one piece.
Split(text, sep) ==
    LET hits == {i \in 1..(Len(text) - Len(sep) + 1) :
                    SubSeq(text, i, i + Len(sep) - 1) = sep}
    IN  IF hits = {} THEN <<text>>
        ELSE LET i == CHOOSE h \in hits : \A g \in hits : h <= g
             IN  <<SubSeq(text, 1, i - 1)>>
                     \o Split(SubSeq(text, i + Len(sep), Len(text)), sep)

\* SELECT id FROM categories WHERE slug = $1 AND parent_id IS NULL / = $2
CategoryIds(store, slug, parentID) ==
    {store.rows[r].id : r \in {q \in 1..Len(store.rows) :
                                  /\ store.rows[q].slug = slug
                                  /\ store.rows[q].parent_id = parentID}}

\* categories.slug is UNIQUE and parent_id REFERENCES categories(id)
\* (part_005 lines 7 and 9): the INSERT is refused for a slug some row has
\* and for a parent that is no row.
CategoryInsertAccepted(store, slug, parentID) ==
    /\ \A r \in 1..Len(store.rows) : store.rows[r].slug # slug
    /\ parentID = NoId \/ \E r \in 1..Len(store.rows) : store.rows[r].id = parentID

\* One round of the loop over parts; st is the store with parentID and
\* lastCategoryID (NoId for nil and for "").  The error of the INSERT is
\* dropped: catID is the new uuid whether or not the row was stored.
CategoryStep(st, rawPart) ==
    LET part == TrimSpace(rawPart)
        slug == makeSlug(part)
        found == CategoryIds(st.store, slug, st.parentID)
        catID == st.store.minted + 1
        row == [id |-> catID, parent_id |-> st.parentID, name |-> part, slug |-> slug]
    IN  IF part = <<>> THEN st
        ELSE IF found # {}
        THEN LET id == CHOOSE f \in found : TRUE
             IN  [st EXCEPT !.parentID = id, !.lastCategoryID = id]
        ELSE [store |-> [rows |-> IF CategoryInsertAccepted(st.store, slug, st.parentID)
                                  THEN Append(st.store.rows, row)
                                  ELSE st.store.rows,
                         minted |-> catID],
              parentID |-> catID,
              lastCategoryID |-> catID]

RECURSIVE CategoryLoop(_, _)
CategoryLoop(st, parts) ==
    IF parts = <<>> THEN st
    ELSE CategoryLoop(CategoryStep(st, Head(parts)), Tail(parts))

\* findOrCreateCategory(ctx, categoryText): the store afterwards and the id
\* returned.
findOrCreateCategory(store, categoryText) ==
    IF categoryText = <<>> THEN [store |-> store, id |-> NoId]
    ELSE LET st == CategoryLoop([store |-> store, parentID |-> NoId,
                                 lastCategoryID |-> NoId],
                                Split(categoryText, PathSep))
         IN  [store |-> st.store, id |-> st.lastCategoryID]

\* findOrCreateCategory as goroutines run it, one statement on the store at
\* a time.  MaxResolvers callers are in it at most.
MaxResolvers == 2

ResolveTexts == {sFoo \o PathSep \o sBar, sBar}

\* A call is made: the text is split and the loop is about to start.
findOrCreateCategory_Enter ==
    /\ Len(resolvers) < MaxResolvers
    /\ \E text \in ResolveTexts :
          resolvers' = Append(resolvers,
                              [pc |-> "select", text |-> text,
                               parts |-> Split(text, PathSep),
                               parentID |-> NoId, lastCategoryID |-> NoId,
                               slug |-> <<>>, part |-> <<>>, res |-> NoId])
    /\ UNCHANGED <<impl, feeds, products, progressObjs, importProgress, runs,
                   lastResponse, remote, categories, host, poll, call>>

\* The head of the loop: return after the last part, skip an empty part,
\* otherwise the SELECT by (slug, parent).  A row found becomes parent and
\* result; without one (err != nil) the caller goes on to insert.
findOrCreateCategory_Select(w) ==
    /\ w \in 1..Len(resolvers)
    /\ resolvers[w].pc = "select"
    /\ LET r == resolvers[w]
           part == TrimSpace(Head(r.parts))
           slug == makeSlug(part)
           found == CategoryIds(categories, slug, r.parentID)
       IN  resolvers' = [resolvers EXCEPT ![w] =
              IF r.parts = <<>>
              THEN [r EXCEPT !.pc = "returned", !.res = r.lastCategoryID]
              ELSE IF part = <<>>
              THEN [r EXCEPT !.parts = Tail(@)]
              ELSE IF found # {}
              THEN LET id == CHOOSE f \in found : TRUE
                   IN  [r EXCEPT !.parts = Tail(@), !.parentID = id,
                                 !.lastCategoryID = id]
              ELSE [r EXCEPT !.pc = "insert", !.part = part, !.slug = slug]]
    /\ UNCHANGED <<impl, feeds, products, progressObjs, importProgress, runs,
                   lastResponse, remote, categories, host, poll, call>>

\* catID = uuid.New(); the INSERT, its error dropped; parentID = &catID.
findOrCreateCategory_Insert(w) ==
    /\ w \in 1..Len(resolvers)
    /\ resolvers[w].pc = "insert"
    /\ LET r == resolvers[w]
           catID == categories.minted + 1
           row == [id |-> catID, parent_id |-> r.parentID, name |-> r.part,
                   slug |-> r.slug]
       IN  /\ categories' =
                 [rows |-> IF CategoryInsertAccepted(categories, r.slug, r.parentID)
                           THEN Append(categories.rows, row)
                           ELSE categories.rows,
                  minted |-> catID]
           /\ resolvers' = [resolvers EXCEPT ![w] =
                 [r EXCEPT !.pc = "select", !.parts = Tail(@), !.parentID = catID,
                           !.lastCategoryID = catID]]
    /\ UNCHANGED <<impl, feeds, products, progressObjs, importProgress, runs,
                   lastResponse, remote, host, poll, call>>

ResolveNext ==
    \/ findOrCreateCategory_Enter
    \/ \E w \in 1..MaxResolvers : findOrCreateCategory_Select(w)
    \/ \E w \in 1..MaxResolvers : findOrCreateCategory_Insert(w)

\* The empty categories table, nobody in the call.
ResolveInit ==
    /\ impl = "legacy"
    /\ feeds = [f \in {} |-> Nil]
    /\ products = <<>>
    /\ progressObjs = <<>>
    /\ importProgress = [f \in FeedIds |-> 0]
    /\ runs = <<>>
    /\ lastResponse = [op |-> "none", feed_id |-> "", code |-> 0, status |-> ""]
    /\ remote = {}
    /\ categories = NoCategories
    /\ host = HostUp
    /\ poll = NoPoll
    /\ call = NoCall
    /\ resolvers = <<>>

ResolveSpec == ResolveInit /\ [][ResolveNext]_vars

\* The segments and the paths given to it: up to MaxSegments segments, among
\* them two names of one slug, an empty one and one with a space around it.
MaxSegments == 3
MaxMinted == 5

SegmentNames == {sFoo, sFooLower, sBar, <<>>, <<" ", "a", "b">>}

RECURSIVE Join(_)
Join(segs) ==
    IF Len(segs) = 1 THEN segs[1]
    ELSE segs[1] \o PathSep \o Join(Tail(segs))

CategoryTexts ==
    {Join(segs) : segs \in UNION {[1..n -> SegmentNames] : n \in 1..MaxSegments}}

Call_findOrCreateCategory ==
    /\ categories.minted + MaxSegments <= MaxMinted
    /\ \E text \in CategoryTexts :
          LET r == findOrCreateCategory(categories, text)
          IN  /\ categories' = r.store
              /\ call' = [fn |-> "findOrCreateCategory",
                          arg |-> [text |-> text, store |-> categories],
                          res |-> r.id]
    /\ UNCHANGED <<impl, feeds, products, progressObjs, importProgress, runs,
                   lastResponse, remote, host, poll, resolvers>>

CategoryInit ==
    /\ impl = "legacy"
    /\ feeds = [f \in {} |-> Nil]
    /\ products = <<>>
    /\ progressObjs = <<>>
    /\ importProgress = [f \in FeedIds |-> 0]
    /\ runs = <<>>
    /\ lastResponse = [op |-> "none", feed_id |-> "", code |-> 0, status |-> ""]
    /\ remote = {}
    /\ categories = NoCategories
    /\ host = HostUp
    /\ poll = NoPoll
    /\ call = NoCall
    /\ resolvers = <<>>

CategoryNext == Call_findOrCreateCategory

CategorySpec == CategoryInit /\ [][CategoryNext]_vars

\* The feeds.go program fed by a source whose XML payload has items with a
\* PARAM block each (and a JSON payload with an empty title).
ParamItems == 2

ParamBody ==
    [code |-> 200, format |-> "xml",
     items |-> parseFullXML(XmlDoc(<<>>, "SHOPITEM", ParamItems, 1).tokens, "")]

AttrInit ==
    /\ impl = "feeds"
    /\ feeds \in [KnownFeeds -> {[type |-> c.type, field_mapping |-> c.field_mapping,
                                  last_status |-> "idle", product_count |-> 0,
                                  import_count |-> 0]
                                 : c \in FeedConfigs}]
    /\ products = <<>>
    /\ progressObjs = <<>>
    /\ importProgress = [f \in FeedIds |-> 0]
    /\ runs = <<>>
    /\ lastResponse = [op |-> "none", feed_id |-> "", code |-> 0, status |-> ""]
    /\ remote = {ParamBody, [code |-> 200, format |-> "json", items |-> <<itemEmptyTitle>>]}
    /\ categories = NoCategories
    /\ host = HostUp
    /\ poll = NoPoll
    /\ call = NoCall
    /\ resolvers = <<>>

AttrNext ==
    \/ \E feedID \in FeedIds : NoRunInFlight(feedID) /\ StartImport(feedID)
    \/ \E feedID \in FeedIds : GetImportProgress(feedID)
    \/ \E k \in 1..MaxTriggers : runImport(k)

AttrSpec == AttrInit /\ [][AttrNext]_vars

\* The most items of an XML payload given to the full extractor alone.
MaxXmlItems == 3

\* items = parseFullXML(data, feed.XMLItemPath) on the payload with n items
\* of k PARAM blocks each.
Call_parseFullXML ==
    /\ call.fn = "none"
    /\ \E n \in 0..MaxXmlItems, k \in 0..MaxParams :
        \E tag \in {"SHOPITEM", "shopitem"}, itemPath \in {"", "SHOPITEM", "ITEM"} :
          call' = [fn |-> "parseFullXML",
                   arg |-> [n |-> n, k |-> k, tag |-> tag, itemPath |-> itemPath],
                   res |-> parseFullXML(XmlDoc(<<>>, tag, n, k).tokens, itemPath)]
    /\ UNCHANGED <<impl, feeds, products, progressObjs, importProgress, runs,
                   lastResponse, remote, categories, host, poll, resolvers>>

\* The most data rows of a CSV payload given to the full extractor alone.
MaxCsvRows == 3

\* Data row i of a CSV payload under the header PRODUCTNAME;EAN: with both
\* cells, with the EAN cell missing, or with a third cell.
CsvRow(i, shape) ==
    CASE shape = "short" -> <<ItemName(i)>>
      [] shape = "long" -> <<ItemName(i), ItemEan(i), <<"x">>>>
      [] OTHER -> <<ItemName(i), ItemEan(i)>>

CsvShapes == {"ok", "short", "long"}

\* items = parseFullCSV(data) on the payload with these data rows.
Call_parseFullCSV ==
    /\ call.fn = "none"
    /\ \E n \in 0..MaxCsvRows :
        \E shapes \in [1..n -> CsvShapes] :
          LET records == <<CsvHeader>> \o [i \in 1..n |-> CsvRow(i, shapes[i])]
          IN  call' = [fn |-> "parseFullCSV",
                       arg |-> [records |-> records, shapes |-> shapes],
                       res |-> parseFullCSV(records)]
    /\ UNCHANGED <<impl, feeds, products, progressObjs, importProgress, runs,
                   lastResponse, remote, categories, host, poll, resolvers>>

\* Records for an update: a title, and a description, an image URL and a
\* numeric price that are each there, empty or absent.
UpdateTexts == {Nil, Str(<<>>), Str(<<"a">>), Str(<<"b">>)}

UpdateData ==
    {[mapFields(EmptyMap, NoMapping) EXCEPT
          !["title"] = Str(t), !["description"] = d, !["image_url"] = u, !["price"] = pr]
       : t \in {sFoo, sBar},
         d \in UpdateTexts,
         u \in {Nil, Str(<<>>), Str(<<"a">>)},
         pr \in {Nil, Num(1), Num(2)}}

\* h.updateProductFromFeed(ctx, existingID, productData) on the row that an
\* earlier record created.
Call_updateProductFromFeed ==
    /\ call.fn = "none"
    /\ \E old \in UpdateData, data \in UpdateData :
          LET row == FeedProductRow(old, "f1")
          IN  call' = [fn |-> "updateProductFromFeed",
                       arg |-> [row |-> row, data |-> data],
                       res |-> FeedUpdatedRow(row, data)]
    /\ UNCHANGED <<impl, feeds, products, progressObjs, importProgress, runs,
                   lastResponse, remote, categories, host, poll, resolvers>>

\* The functions applied on their own, one application a behaviour, from a
\* process that runs no import.
FnInit ==
    /\ impl = "feeds"
    /\ feeds = [f \in KnownFeeds |->
                   [type |-> "xml", field_mapping |-> NoMapping,
                    last_status |-> "idle", product_count |-> 0, import_count |-> 0]]
    /\ products = <<>>
    /\ progressObjs = <<>>
    /\ importProgress = [f \in FeedIds |-> 0]
    /\ runs = <<>>
    /\ lastResponse = [op |-> "none", feed_id |-> "", code |-> 0, status |-> ""]
    /\ remote = Responses
    /\ categories = NoCategories
    /\ host = HostUp
    /\ poll = NoPoll
    /\ call = NoCall
    /\ resolvers = <<>>

FnNext ==
    \/ Call_mapFields
    \/ PreviewFeed
    \/ Call_parseFullXML
    \/ Call_parseFullCSV
    \/ Call_updateProductFromFeed

FnSpec == FnInit /\ [][FnNext]_vars

\* ------------------------------------------------------------------ claims

\* The entry of a run and the entries that exist.
Objs == 1..Len(progressObjs)
RunIds == 1..Len(runs)

\* C1: within a single run the entry's processed counter never decreases
\* from one state to the next, and from the step on that makes the status
\* completed or failed, processed equals total.
C1_ProcessedMonotone ==
    [][\A o \in Objs :
          /\ progressObjs'[o].processed >= progressObjs[o].processed
          /\ progressObjs'[o].status \in Terminal
                => progressObjs'[o].processed = progressObjs'[o].total]_vars

\* A run that skipped one record and wrote another has completed.
C1_Witness ==
    \E o \in Objs :
        /\ progressObjs[o].status = "completed"
        /\ progressObjs[o].total = 2
        /\ progressObjs[o].processed = 2
        /\ progressObjs[o].skipped = 1

\* C2: within a single run the status only moves downloading -> parsing ->
\* importing -> completed, or from a status that is not terminal to failed;
\* it never moves back, never skips a stage, and never leaves completed or
\* failed.
StatusForward ==
    {<<"downloading", "parsing">>, <<"parsing", "importing">>,
     <<"importing", "completed">>}

C2_StatusForward ==
    [][\A o \in Objs :
          LET from == progressObjs[o].status
              to == progressObjs'[o].status
          IN  \/ to = from
              \/ <<from, to>> \in StatusForward
              \/ from \notin Terminal /\ to = "failed"]_vars

\* One feed has seen a run fail and a later run walk through every stage.
C2_Witness ==
    \E o1, o2 \in Objs :
        /\ o1 < o2
        /\ progressObjs[o1].status = "failed"
        /\ progressObjs[o2].status = "completed"
        /\ progressObjs[o2].total > 0

\* The normalized EAN of a raw item, as the reconciler reads it.
EanOf(item, mapping) == AsString(mapFields(item, mapping)["ean"])

\* C3: a record whose store write fails, on the create or on the update
\* route, adds exactly one to errors and nothing to created or updated; the
\* run goes on and ends completed.
C3_WriteFailureCounted ==
    [][\A k \in RunIds :
          /\ (runs[k].pc = "count" /\ runs'[k].pc = "processed" /\ runs[k].write_err)
                => LET o == runs[k].obj
                   IN  /\ progressObjs'[o].errors = progressObjs[o].errors + 1
                       /\ progressObjs'[o].created = progressObjs[o].created
                       /\ progressObjs'[o].updated = progressObjs[o].updated
          /\ (runs'[k].pc = "done" /\ runs[k].pc # "done" /\ runs[k].results # <<>>)
                => LET o == runs[k].obj
                   IN  /\ progressObjs'[o].status = "completed"
                       /\ progressObjs'[o].processed = progressObjs'[o].total]_vars

\* Two runs of one feed, one after the other, found the same items, and
\* both completed; the store was empty before the first.
TwiceInSequence ==
    /\ Len(runs) >= 2
    /\ runs[1].pc = "done" /\ runs[2].pc = "done"
    /\ runs[1].feed_id = runs[2].feed_id
    /\ runs[1].items = runs[2].items
    /\ progressObjs[runs[1].obj].status = "completed"
    /\ progressObjs[runs[2].obj].status = "completed"

PayloadEans(k) ==
    {EanOf(runs[k].items[i], runs[k].feed.field_mapping) : i \in 1..Len(runs[k].items)}
        \ {<<>>}

PolicyTargets(store, data) ==
    LET ean == AsString(data["ean"])
        sku == AsString(data["sku"])
    IN  IF ean # <<>> /\ ProductIdsByEan(store, ean) # {}
        THEN ProductIdsByEan(store, ean)
        ELSE IF sku # <<>> /\ ProductIdsBySku(store, sku) # {}
             THEN ProductIdsBySku(store, sku)
             ELSE {}

C6_ZeroRecordsFail ==
    \A k \in RunIds :
        (runs[k].obj # 0 /\ runs[k].items = <<>>)
           => progressObjs[runs[k].obj].status \notin {"importing", "completed"}

\* C7: once the download of a run has ended with a transport error or a
\* status other than success, the entry is failed with a message, nothing
\* was extracted or written, and the status is never parsing, importing or
\* completed.
C7_BadDownloadFails ==
    \A k \in RunIds :
        (runs[k].obj # 0 /\ runs[k].http_status \notin {0} \cup (200..299))
           => /\ progressObjs[runs[k].obj].status = "failed"
              /\ progressObjs[runs[k].obj].message # ""
              /\ runs[k].items = <<>>
              /\ runs[k].results = <<>>

\* The step is an answer of the handler op.
Answered(op) == lastResponse' # lastResponse /\ lastResponse'.op = op

\* C8: StartImport for an id without a feeds row answers 404 and changes
\* nothing else: no entry, no feeds row, no run; an unknown id never has an
\* entry or a run.
C8_UnknownFeedNoOp ==
    [][/\ \A f \in FeedIds \ DOMAIN feeds :
             /\ importProgress'[f] = 0
             /\ \A k \in 1..Len(runs') : runs'[k].feed_id # f
             /\ \A o \in 1..Len(progressObjs') : progressObjs'[o].feed_id # f
       /\ Answered("StartImport") =>
             /\ lastResponse'.code = 404 <=> lastResponse'.feed_id \notin DOMAIN feeds
             /\ lastResponse'.code = 404 =>
                   UNCHANGED <<feeds, products, progressObjs, importProgress, runs>>]_vars

\* StartImport of an unknown id was answered 404 while a run was in flight.
C8_Witness ==
    /\ lastResponse.op = "StartImport"
    /\ lastResponse.code = 404
    /\ lastResponse.feed_id \notin DOMAIN feeds
    /\ \E k \in RunIds : Live(k) /\ runs[k].obj # 0 /\ runs[k].i > 0

\* C9: an entry, once in the map, is never removed; and a poll answers idle
\* exactly when no entry was ever created for the id.
C9_IdleIffNeverRun ==
    [][\A f \in FeedIds :
          /\ importProgress[f] # 0 => importProgress'[f] # 0
          /\ (Answered("GetImportProgress") /\ lastResponse'.feed_id = f) =>
                (lastResponse'.status = "idle"
                    <=> ~\E o \in Objs : progressObjs[o].feed_id = f)]_vars

\* A poll after the end of a run answered with the finished run's status.
C9_Witness ==
    /\ lastResponse.op = "GetImportProgress"
    /\ lastResponse.status = "completed"
    /\ \E k \in RunIds : runs[k].feed_id = lastResponse.feed_id /\ runs[k].pc = "done"
    /\ \A k \in RunIds : ~Live(k)

\* An entry as a run's installation leaves it.  The legacy entry has no log.
FreshEntry(e, f) ==
    /\ e.feed_id = f
    /\ e.status = "downloading"
    /\ e.total = 0 /\ e.processed = 0 /\ e.created = 0 /\ e.updated = 0
    /\ e.skipped = 0 /\ e.errors = 0 /\ e.percent = 0
    /\ e.success = 0 /\ e.failed = 0
    /\ e.logs = IF impl = "feeds" THEN <<"Import started">> ELSE <<>>

Invalid(data) == AsString(data["title"]) = <<>> \/ AsFloat(data["price"]) <= 0

\* C11: the step a run takes on a record with an empty or missing title or
\* a non-positive price is the skip: skipped +1, processed +1, errors
\* unchanged, no lookup and no write to the product store.
C11_InvalidSkipped ==
    [][\A k \in RunIds :
          (AtItem(k) /\ runs'[k] # runs[k] /\ Invalid(ProductData(k))) =>
             LET o == runs[k].obj
             IN  /\ runs'[k].results = Append(runs[k].results, "skipped")
                 /\ runs'[k].pc = "item"
                 /\ progressObjs'[o].skipped = progressObjs[o].skipped + 1
                 /\ progressObjs'[o].processed = progressObjs[o].processed + 1
                 /\ progressObjs'[o].errors = progressObjs[o].errors
                 /\ products' = products]_vars

\* The first candidate name of a priority list that the item holds with a
\* non-empty value; Nil without one.
FirstCandidate(item, names) ==
    LET hits == {i \in 1..Len(names) :
                    names[i] \in DOMAIN item /\ item[names[i]] # Str(<<>>)}
    IN  IF hits = {} THEN Nil
        ELSE item[names[CHOOSE i \in hits : \A j \in hits : i <= j]]

\* C12: for every canonical field, an explicit mapping entry whose source is
\* present and non-empty gives the field's value; when the explicit source
\* is absent or empty the first present non-empty candidate of the field's
\* priority list does.
C12_ExplicitWins ==
    call.fn = "mapFields" =>
        \A target \in DOMAIN autoMap :
            LET item == call.arg.item
                mapping == call.arg.mapping
                srcs == {src \in DOMAIN mapping :
                            /\ mapping[src] = target
                            /\ src \in DOMAIN item
                            /\ item[src] # Str(<<>>)}
            IN  IF srcs # {}
                THEN \E src \in srcs : call.res[target] = item[src]
                ELSE call.res[target] = FirstCandidate(item, autoMap[target])

\* C13: a preview answers total_items = the number of items the full
\* extractor of the same type finds in the payload, with a sample of at most
\* 5 records.
C13_PreviewCountsAll ==
    (call.fn = "PreviewFeed" /\ call.res.code = 200) =>
        /\ call.res.preview.total_items =
              Len(ExtractFull(call.res.detected_type, call.arg.doc,
                              call.arg.input.xml_item_path))
        /\ Len(call.res.preview.sample) <= 5

\* The first byte of a payload that is not white space ("" without one).
FirstNonSpace(data) ==
    LET idx == {i \in 1..Len(data) : data[i] \notin SpaceChars}
    IN  IF idx = {} THEN ""
        ELSE data[CHOOSE i \in idx : \A j \in idx : i <= j]

\* C15: a supplied type hint is the detected type; without one a payload
\* whose first non-blank byte is '<' is xml, '[' or '{' json, and every
\* other payload, the empty one included, csv.
C15_FormatDetection ==
    (call.fn = "PreviewFeed" /\ call.res.code = 200) =>
        LET hint == call.arg.input.type
            first == FirstNonSpace(call.arg.doc.head)
        IN  call.res.detected_type =
               IF hint # "" THEN hint
               ELSE IF first = "<" THEN "xml"
               ELSE IF first \in {"[", "{"} THEN "json"
               ELSE "csv"

\* A payload with blank bytes before its '<' was classified xml without a hint.
C15_Witness ==
    /\ call.fn = "PreviewFeed"
    /\ call.res.code = 200
    /\ call.arg.input.type = ""
    /\ call.arg.doc.head # <<>>
    /\ call.arg.doc.head[1] \in SpaceChars
    /\ call.res.detected_type = "xml"
    /\ call.res.preview.total_items = 2

\* The parameter name/value pairs a record holds.
ParamPairs(record) ==
    IF {"PARAM_NAME", "VAL"} \subseteq DOMAIN record
    THEN {<<record["PARAM_NAME"], record["VAL"]>>}
    ELSE {}

\* C16: extracting an XML payload of n items, each with PRODUCTNAME, EAN and
\* k PARAM blocks, gives n records in document order, each with its own
\* PRODUCTNAME and EAN and with all k parameter pairs.
C16_XmlRoundTrip ==
    (call.fn = "parseFullXML" /\ call.arg.itemPath # "ITEM") =>
        /\ Len(call.res) = call.arg.n
        /\ \A i \in 1..Len(call.res) :
              /\ Get(call.res[i], "PRODUCTNAME") = Str(ItemName(i))
              /\ Get(call.res[i], "EAN") = Str(ItemEan(i))
              /\ ParamPairs(call.res[i])
                    = {<<Str(ParamName(j)), Str(ParamVal(i, j))>> : j \in 1..call.arg.k}

Segments(text) ==
    LET parts == Split(text, PathSep)
    IN  SelectSeq([i \in 1..Len(parts) |-> TrimSpace(parts[i])], LAMBDA seg : seg # <<>>)

\* The store holds no category of the path: no row has a name or a slug of
\* one of its segments.
HoldsNoneOf(store, segs) ==
    \A r \in 1..Len(store.rows), i \in 1..Len(segs) :
        /\ store.rows[r].name # segs[i]
        /\ store.rows[r].slug # makeSlug(segs[i])

\* C17: a path of n non-empty segments resolved against a store with none
\* of them adds exactly n rows, one a segment in path order, each the child
\* of the one before and the first without a parent, and returns the id of
\* the last; resolved again it adds no row and returns the same id.
C17_PathCreatesChain ==
    (call.fn = "findOrCreateCategory"
       /\ Segments(call.arg.text) # <<>>
       /\ HoldsNoneOf(call.arg.store, Segments(call.arg.text))) =>
        LET segs == Segments(call.arg.text)
            n == Len(segs)
            base == Len(call.arg.store.rows)
            again == findOrCreateCategory(categories, call.arg.text)
        IN  /\ Len(categories.rows) = base + n
            /\ \A i \in 1..n :
                  /\ categories.rows[base + i].name = segs[i]
                  /\ categories.rows[base + i].parent_id
                        = IF i = 1 THEN NoId ELSE categories.rows[base + i - 1].id
            /\ call.res = categories.rows[base + n].id
            /\ again.store.rows = categories.rows
            /\ again.id = call.res

\* The entries some code is reading outside the lock: the one a poll is
\* marshalling, and the one a run holds as p for its statement on the feeds
\* row (p.Created + p.Updated after Unlock).
UnlockedReads ==
    (IF poll.pc = "marshal" THEN {poll.ptr} ELSE {})
        \cup {runs[k].p : k \in {j \in RunIds : runs[j].pc = "feedstats" /\ runs[j].p # 0}}

\* C18: no step writes a field of a progress entry while that entry is being
\* read outside the progress lock.
C18_NoUnlockedAccess ==
    [][\A ptr \in UnlockedReads : progressObjs'[ptr] = progressObjs[ptr]]_vars

\* The maximum a capped log would have.
LogCap == 5

\* C19: the log of a progress entry never has more than LogCap lines.
C19_LogBounded ==
    \A o \in Objs : Len(progressObjs[o].logs) <= LogCap

\* The records among the first ones of a run that took a given branch.
CountOf(results, outcome) ==
    Cardinality({j \in 1..Len(results) : results[j] = outcome})

\* A run of runImport between two records, or past its loop.
AtBoundary(k) ==
    /\ impl = "feeds"
    /\ runs[k].obj # 0
    /\ runs[k].pc \in {"item", "feedstats", "sync", "done"}

\* C20: between two records of a run and once it has completed, processed
\* is created + updated + skipped + errors and is the number of records
\* gone through, each of which is counted in exactly one of the four.
C20_EveryRecordOnce ==
    \A k \in RunIds :
        AtBoundary(k) =>
            LET e == progressObjs[runs[k].obj]
            IN  /\ e.processed = e.created + e.updated + e.skipped + e.errors
                /\ e.processed = runs[k].i
                /\ Len(runs[k].results) = runs[k].i
                /\ e.created = CountOf(runs[k].results, "created")
                /\ e.updated = CountOf(runs[k].results, "updated")
                /\ e.skipped = CountOf(runs[k].results, "skipped")
                /\ e.errors = CountOf(runs[k].results, "error")
                /\ (runs[k].p # 0 => runs[k].i = Len(runs[k].items))

\* A run has completed over two records that went different ways, one of
\* them a failed create.
C20_Witness ==
    \E k \in RunIds :
        /\ AtBoundary(k)
        /\ runs[k].pc = "done"
        /\ progressObjs[runs[k].obj].status = "completed"
        /\ Len(runs[k].items) = 2
        /\ progressObjs[runs[k].obj].processed = 2
        /\ progressObjs[runs[k].obj].errors = 1
        /\ progressObjs[runs[k].obj].skipped + progressObjs[runs[k].obj].created
              + progressObjs[runs[k].obj].updated = 1

\* C21: a data row whose field count is not the header's does not end the
\* CSV extraction: there are as many records as data rows, and every row
\* with the header's field count is the record at its place.
C21_CsvTolerant ==
    call.fn = "parseFullCSV" =>
        LET header == Head(call.arg.records)
            rows == Tail(call.arg.records)
        IN  /\ Len(call.res) = Len(rows)
            /\ \A i \in 1..Len(rows) :
                  Len(rows[i]) = Len(header) => call.res[i] = CsvItem(header, rows[i])

\* C22: no step changes the EAN or the SKU of a product row that exists,
\* and no row goes away.
C22_IdentityImmutable ==
    [][/\ Len(products') >= Len(products)
       /\ \A id \in 1..Len(products) :
             /\ products'[id].ean = products[id].ean
             /\ products'[id].sku = products[id].sku]_vars

\* A row has been updated from a record that has its EAN and another SKU:
\* the row has the record's title and its own SKU.
C22_Witness ==
    \E k \in RunIds, id \in 1..Len(products) :
        \E j \in 1..Len(runs[k].results) :
            LET data == mapFields(runs[k].items[j], runs[k].feed.field_mapping)
            IN  /\ runs[k].results[j] = "updated"
                /\ products[id].ean = AsString(data["ean"])
                /\ products[id].title = AsString(data["title"])
                /\ AsString(data["sku"]) # <<>>
                /\ products[id].sku # AsString(data["sku"])

\* C23: after an update the row's title, description, image URL and price
\* are the record's, whatever they are (an empty description or image URL
\* included).
C23_OverwriteAll ==
    call.fn = "updateProductFromFeed" =>
        /\ call.res.title = AsString(call.arg.data["title"])
        /\ call.res.description = AsString(call.arg.data["description"])
        /\ call.res.image_url = AsString(call.arg.data["image_url"])
        /\ call.res.price = AsFloat(call.arg.data["price"])

\* The product row a run has just written: the one it matched, or the one
\* its INSERT added.
WrittenId(k) ==
    IF runs[k].outcome = "updated" THEN runs[k].existingID ELSE Len(products)

\* C25: when a record has been written without error, the attributes
\* stored for its product are exactly the record's parameter pairs.
C25_AttributesReplaced ==
    \A k \in RunIds :
        (/\ runs[k].pc = "count"
         /\ runs[k].outcome \in {"created", "updated"}
         /\ ~runs[k].write_err) =>
            products[WrittenId(k)].attributes
                = {<<AsString(pair[1]), AsString(pair[2])>> :
                      pair \in ParamPairs(runs[k].items[runs[k].i + 1])}

\* C26: with runs of one feed overlapping in any way, the feed's entry has
\* processed <= total whenever its status is importing or completed, and
\* processed = total once no run of the feed is in flight.
C26_ProcessedWithinTotal ==
    \A f \in FeedIds :
        importProgress[f] # 0 =>
            LET e == progressObjs[importProgress[f]]
            IN  /\ e.status \in {"importing", "completed"} => e.processed <= e.total
                /\ (e.status = "completed" /\ NoRunInFlight(f)) => e.processed = e.total

\* C27: while a feed keeps its entry (no StartImport installs another), a
\* status of completed or failed stays as it is.
C27_TerminalStays ==
    [][\A f \in FeedIds :
          (/\ importProgress[f] # 0
           /\ importProgress'[f] = importProgress[f]
           /\ progressObjs[importProgress[f]].status \in {"completed", "failed"}) =>
              progressObjs'[importProgress[f]].status
                  = progressObjs[importProgress[f]].status]_vars

\* The run of the last acknowledged trigger of a feed.
LatestRun(f) ==
    CHOOSE k \in RunIds :
        /\ runs[k].feed_id = f
        /\ \A j \in RunIds : runs[j].feed_id = f => j <= k

\* C28: a poll answered after a trigger of the feed was acknowledged does
\* not answer idle, and the entry it reads is the one of the last
\* acknowledged trigger's run.
C28_InstalledBeforeAck ==
    [][\A f \in FeedIds :
          (/\ Answered("GetImportProgress")
           /\ lastResponse'.feed_id = f
           /\ \E k \in RunIds : runs[k].feed_id = f) =>
              /\ lastResponse'.status # "idle"
              /\ importProgress[f] # 0
              /\ importProgress[f] = runs[LatestRun(f)].obj]_vars

\* A run has returned and its entry shows completed or failed.
Finished(k) ==
    /\ k \in RunIds
    /\ runs[k].pc = "done"
    /\ runs[k].obj # 0
    /\ progressObjs[runs[k].obj].status \in {"completed", "failed"}

CategoryRowIds == {categories.rows[r].id : r \in 1..Len(categories.rows)}

\* C24: when two callers have resolved the same path, whatever way their
\* lookups and inserts interleaved, the table has one row for each
\* (parent_id, slug) and both callers have the id of the same existing row.
C24_ConcurrentResolve ==
    \A v, w \in 1..Len(resolvers) :
        (/\ v # w
         /\ resolvers[v].pc = "returned" /\ resolvers[w].pc = "returned"
         /\ resolvers[v].text = resolvers[w].text) =>
            /\ \A r, q \in 1..Len(categories.rows) :
                  (/\ categories.rows[r].parent_id = categories.rows[q].parent_id
                   /\ categories.rows[r].slug = categories.rows[q].slug) => r = q
            /\ resolvers[v].res = resolvers[w].res
            /\ resolvers[v].res \in CategoryRowIds

\* C30: for a path with a non-empty segment findOrCreateCategory returns
\* the id of a row of the table, whether or not its inserts were accepted.
C30_ReturnsStoredId ==
    (call.fn = "findOrCreateCategory" /\ Segments(call.arg.text) # <<>>) =>
        call.res \in CategoryRowIds

====
